---- MODULE Spec2Model ----
(***************************************************************************)
(* gowebtemplate: the project initialisation program.                      *)
(*                                                                         *)
(* The repository holds two variants of the same program: src/init.go      *)
(* (git provider/username, `git remote add`) and src/unnamed/part_000      *)
(* (git repository URL, directory rename, `git remote set-url`).  The      *)
(* variable `variant` says which of the two is running; everything else    *)
(* is the state of one run main -> collectEnvInfo -> PromptInitConfig ->   *)
(* initProject.  Strings are sequences of one-character strings so that    *)
(* strings.TrimPrefix and filepath.Base are computed, not assumed.         *)
(***************************************************************************)
EXTENDS Naturals, Sequences, FiniteSets

VARIABLES variant, pc, cwd, getwdErr, envInfo, initConfig, asked, answers,
          procs, steps, errs, fs, removeResult

vars == <<variant, pc, cwd, getwdErr, envInfo, initConfig, asked, answers,
          procs, steps, errs, fs, removeResult>>

(***************************************************************************)
(* String literals of the program                                          *)
(***************************************************************************)
EmptyStr == <<>>

HttpsScheme == <<"h", "t", "t", "p", "s", ":", "/", "/">>

HttpScheme == <<"h", "t", "t", "p", ":", "/", "/">>

TemplateDirName == <<"g", "o", "w", "e", "b", "t", "e", "m", "p", "l", "a", "t", "e">>

CmdDir == <<".", "/", "c", "m", "d", "/">>

MainGo == <<"/", "m", "a", "i", "n", ".", "g", "o">>

PkgDir == <<".", "/", "p", "k", "g">>

InternalDir == <<".", "/", "i", "n", "t", "e", "r", "n", "a", "l">>

MakefilePath == <<".", "/", "M", "a", "k", "e", "f", "i", "l", "e">>

InitGoPath == <<".", "/", "i", "n", "i", "t", ".", "g", "o">>

Slash == <<"/">>

Dot == <<".">>

(***************************************************************************)
(* Files the external tools leave behind when they succeed                 *)
(***************************************************************************)
GoModFile == <<".", "/", "g", "o", ".", "m", "o", "d">>

Taskfile == <<".", "/", "T", "a", "s", "k", "f", "i", "l", "e", ".", "y", "m", "l">>

GitDir == <<".", "/", ".", "g", "i", "t">>

(***************************************************************************)
(* Inputs: what the user types and what the environment answers            *)
(***************************************************************************)
RepoUrl == <<"h", "t", "t", "p", "s", ":", "/", "/", "g", "i", "t", "h", "u", "b", ".", "c", "o", "m", "/", "u", "s", "e", "r", "/", "r", "e", "p", "o">>

RepoNested == <<"h", "t", "t", "p", ":", "/", "/", "h", "t", "t", "p", "s", ":", "/", "/", "r">>

WdPath == <<"/", "s", "r", "v", "/", "m", "y", "a", "p", "p">>

ModFoo == <<"e", "x", "a", "m", "p", "l", "e", ".", "c", "o", "m", "/", "f", "o", "o">>

ProviderName == <<"g", "i", "t", "h", "u", "b", ".", "c", "o", "m">>

UserName == <<"u", "s", "e", "r">>

ConfUser == <<"m", "e">>

Variants == {"init.go", "part_000"}

WorkingDirs == {WdPath}

RepoInputs == {EmptyStr, RepoUrl, HttpsScheme, RepoNested}

ModNameInputs == {EmptyStr, ModFoo, TemplateDirName}

UsernameInputs == {EmptyStr, UserName}

GitConfigOutputs == {EmptyStr, ConfUser}

ProviderInputs == {EmptyStr, ProviderName}

Answers == {<<"y">>, <<"n">>, EmptyStr, <<"Y">>}

NotAsked == <<"-">>

(***************************************************************************)
(* Pure functions                                                          *)
(***************************************************************************)
HasPrefix(s, prefix) ==
    /\ Len(s) >= Len(prefix)
    /\ SubSeq(s, 1, Len(prefix)) = prefix

TrimPrefix(s, prefix) ==
    IF HasPrefix(s, prefix) THEN SubSeq(s, Len(prefix) + 1, Len(s)) ELSE s

RECURSIVE StripTrailingSlashes(_)
StripTrailingSlashes(path) ==
    IF Len(path) > 0 /\ path[Len(path)] = "/"
    THEN StripTrailingSlashes(SubSeq(path, 1, Len(path) - 1))
    ELSE path

RECURSIVE LastSlash(_, _)
LastSlash(path, i) ==
    IF i = 0 THEN 0
    ELSE IF path[i] = "/" THEN i
    ELSE LastSlash(path, i - 1)

Base(path) ==
    IF path = EmptyStr THEN Dot
    ELSE LET p == StripTrailingSlashes(path)
             q == SubSeq(p, LastSlash(p, Len(p)) + 1, Len(p))
         IN  IF q = EmptyStr THEN Slash ELSE q

YesNoPrompt(answer, defaultYes) ==
    IF answer = <<"n">> THEN FALSE
    ELSE IF answer = <<"y">> THEN TRUE
    ELSE defaultYes

MainPath(goModName) == CmdDir \o Base(goModName) \o MainGo

CmdPath(goModName) == CmdDir \o Base(goModName)

(***************************************************************************)
(* The result of os.Getwd as PromptInitConfig sees it ("" on error)        *)
(***************************************************************************)
Getwd == IF getwdErr THEN EmptyStr ELSE cwd

ZeroInitConfig ==
    [GitRepo |-> EmptyStr, GitProvider |-> EmptyStr, GitUsername |-> EmptyStr,
     GitPath |-> EmptyStr, GoModName |-> EmptyStr, DirectoryName |-> EmptyStr,
     InitTask |-> FALSE, InitMake |-> FALSE, ReInitGit |-> FALSE,
     RemoveInit |-> FALSE]

ZeroEnvInfo ==
    [TaskInstalled |-> FALSE, GoInstalled |-> FALSE,
     MakeInstalled |-> FALSE, GitInstalled |-> FALSE]

Init ==
    /\ variant \in Variants
    /\ pc = "main"
    /\ cwd \in WorkingDirs
    /\ getwdErr \in BOOLEAN
    /\ envInfo = ZeroEnvInfo
    /\ initConfig = ZeroInitConfig
    /\ asked = <<>>
    /\ answers = [rename |-> NotAsked, modName |-> NotAsked]
    /\ procs = <<>>
    /\ steps = <<>>
    /\ errs = <<>>
    /\ removeResult = "not called"
    /\ fs \in {[dirs |-> {}, files |-> f] : f \in {{}, {InitGoPath}}}

(***************************************************************************)
(* main, collectEnvInfo, checkEssentialCommands                            *)
(***************************************************************************)
collectEnvInfo ==
    /\ pc = "main"
    /\ \E task \in BOOLEAN, go \in BOOLEAN, make \in BOOLEAN, git \in BOOLEAN :
          envInfo' = [TaskInstalled |-> task, GoInstalled |-> go,
                      MakeInstalled |-> make, GitInstalled |-> git]
    /\ pc' = "checkEssentialCommands"
    /\ UNCHANGED <<variant, cwd, getwdErr, initConfig, asked, answers,
                   procs, steps, errs, fs, removeResult>>

checkEssentialCommands ==
    /\ pc = "checkEssentialCommands"
    /\ IF ~envInfo.GoInstalled
       THEN /\ errs' = Append(errs, "go is not installed")
            /\ pc' = "exit"
       ELSE /\ errs' = errs
            /\ pc' = "PromptInitConfig"
    /\ UNCHANGED <<variant, cwd, getwdErr, envInfo, initConfig, asked,
                   answers, procs, steps, fs, removeResult>>

(***************************************************************************)
(* The statements of initProject in source order; After gives the next one *)
(***************************************************************************)
InitProjectOrder_renameAfterStub ==
    IF variant = "part_000"
    THEN <<"GoModInit", "MkdirAll", "CreateMain", "RenameDirectory", "TaskInit",
           "WriteMakefile", "GitInit", "GitRemote", "RemoveInitGo",
           "ClosingGuidance", "exit">>
    ELSE <<"GoModInit", "MkdirAll", "CreateMain", "TaskInit", "WriteMakefile",
           "GitInit", "GitRemote", "RemoveInitGo", "ClosingGuidance", "exit">>

InitProjectOrder ==
    IF variant = "part_000"
    THEN <<"GoModInit", "RenameDirectory", "MkdirAll", "CreateMain", "TaskInit",
           "WriteMakefile", "GitInit", "GitRemote", "RemoveInitGo",
           "ClosingGuidance", "exit">>
    ELSE <<"GoModInit", "MkdirAll", "CreateMain", "TaskInit", "WriteMakefile",
           "GitInit", "GitRemote", "RemoveInitGo", "ClosingGuidance", "exit">>

After(step) ==
    LET i == CHOOSE k \in 1..(Len(InitProjectOrder) - 1) : InitProjectOrder[k] = step
    IN  InitProjectOrder[i + 1]

(***************************************************************************)
(* PromptInitConfig, one action per line read from standard input          *)
(***************************************************************************)
PromptGetwd ==
    /\ pc = "PromptInitConfig"
    /\ IF getwdErr
       THEN /\ errs' = Append(errs, "Error getting working directory")
            /\ initConfig' = ZeroInitConfig
       ELSE /\ errs' = errs
            /\ initConfig' = [ZeroInitConfig EXCEPT !.GoModName = Base(Getwd)]
    /\ pc' = IF envInfo.GitInstalled
             THEN (IF variant = "part_000" THEN "AskGitRepo" ELSE "AskGitUsername")
             ELSE "AskModName"
    /\ UNCHANGED <<variant, cwd, getwdErr, envInfo, asked, answers,
                   procs, steps, fs, removeResult>>

GoModNameFromRepo(gitRepo) ==
    TrimPrefix(TrimPrefix(gitRepo, HttpsScheme), HttpScheme)

AskGitRepo ==
    /\ pc = "AskGitRepo"
    /\ \E gitRepo \in RepoInputs :
          initConfig' =
             IF gitRepo # EmptyStr
             THEN [initConfig EXCEPT !.GitRepo = gitRepo,
                                     !.GoModName = GoModNameFromRepo(gitRepo)]
             ELSE initConfig
    /\ asked' = Append(asked, "git repository")
    /\ pc' = "AskModName"
    /\ UNCHANGED <<variant, cwd, getwdErr, envInfo, answers, procs,
                   steps, errs, fs, removeResult>>

AskGitUsername ==
    /\ pc = "AskGitUsername"
    /\ \E maybeUsername \in GitConfigOutputs, gitUsername \in UsernameInputs :
          /\ initConfig' = [initConfig EXCEPT !.GitUsername =
                               IF gitUsername = EmptyStr THEN maybeUsername
                               ELSE gitUsername]
          /\ procs' = Append(procs, [cmd |-> "git config user.name",
                                     arg |-> EmptyStr, ok |-> TRUE])
    /\ asked' = Append(asked, "git username")
    /\ pc' = "AskGitProvider"
    /\ UNCHANGED <<variant, cwd, getwdErr, envInfo, answers, steps,
                   errs, fs, removeResult>>

GitPathOf(gitProvider, gitUsername) ==
    HttpsScheme \o gitProvider \o Slash \o gitUsername \o Slash

AskGitProvider ==
    /\ pc = "AskGitProvider"
    /\ \E gitProviderInput \in ProviderInputs :
          initConfig' =
             IF gitProviderInput # EmptyStr
             THEN [initConfig EXCEPT
                      !.GitProvider = gitProviderInput,
                      !.GitPath = GitPathOf(gitProviderInput, initConfig.GitUsername)]
             ELSE initConfig
    /\ asked' = Append(asked, "git provider")
    /\ pc' = "AskModName"
    /\ UNCHANGED <<variant, cwd, getwdErr, envInfo, answers, procs,
                   steps, errs, fs, removeResult>>

ModNameDefault ==
    IF variant = "init.go" /\ initConfig.GitProvider # EmptyStr
    THEN initConfig.GitPath \o Base(Getwd)
    ELSE initConfig.GoModName

AskModName ==
    /\ pc = "AskModName"
    /\ \E goModuleName \in ModNameInputs :
          /\ initConfig' = [initConfig EXCEPT !.GoModName =
                               IF goModuleName # EmptyStr THEN goModuleName
                               ELSE ModNameDefault]
          /\ answers' = [answers EXCEPT !.modName = goModuleName]
    /\ asked' = Append(asked, "module name")
    /\ pc' = IF variant = "part_000" THEN "AskRename" ELSE "AskTask"
    /\ UNCHANGED <<variant, cwd, getwdErr, envInfo, procs, steps, errs, fs, removeResult>>

AskRename ==
    /\ pc = "AskRename"
    /\ IF initConfig.GitRepo = EmptyStr
       THEN \E answer \in Answers :
               /\ initConfig' = [initConfig EXCEPT !.DirectoryName =
                                    IF YesNoPrompt(answer, FALSE)
                                    THEN initConfig.GoModName
                                    ELSE TemplateDirName]
               /\ answers' = [answers EXCEPT !.rename = answer]
               /\ asked' = Append(asked, "rename directory")
       ELSE /\ initConfig' = [initConfig EXCEPT !.DirectoryName = TemplateDirName]
            /\ UNCHANGED <<answers, asked>>
    /\ pc' = "AskTask"
    /\ UNCHANGED <<variant, cwd, getwdErr, envInfo, procs, steps, errs, fs, removeResult>>

TaskQuestionAsked(env) == env.TaskInstalled

AskTask ==
    /\ pc = "AskTask"
    /\ IF TaskQuestionAsked(envInfo)
       THEN \E answer \in Answers :
               /\ initConfig' = [initConfig EXCEPT !.InitTask = YesNoPrompt(answer, TRUE)]
               /\ asked' = Append(asked, "taskfile")
       ELSE /\ initConfig' = [initConfig EXCEPT !.InitTask = FALSE]
            /\ asked' = asked
    /\ pc' = "AskMake"
    /\ UNCHANGED <<variant, cwd, getwdErr, envInfo, answers, procs,
                   steps, errs, fs, removeResult>>

MakeQuestionAsked_taskFlag(env) == env.TaskInstalled

MakeQuestionAsked(env) == env.MakeInstalled

AskMake ==
    /\ pc = "AskMake"
    /\ IF MakeQuestionAsked(envInfo)
       THEN \E answer \in Answers :
               /\ initConfig' = [initConfig EXCEPT !.InitMake = YesNoPrompt(answer, TRUE)]
               /\ asked' = Append(asked, "makefile")
       ELSE /\ initConfig' = [initConfig EXCEPT !.InitMake = FALSE]
            /\ asked' = asked
    /\ pc' = "AskReInitGit"
    /\ UNCHANGED <<variant, cwd, getwdErr, envInfo, answers, procs,
                   steps, errs, fs, removeResult>>

GitQuestionAsked(env) == env.GitInstalled

AskReInitGit ==
    /\ pc = "AskReInitGit"
    /\ IF GitQuestionAsked(envInfo)
       THEN \E answer \in Answers :
               /\ initConfig' = [initConfig EXCEPT !.ReInitGit = YesNoPrompt(answer, TRUE)]
               /\ asked' = Append(asked, "reinitialize git")
       ELSE /\ initConfig' = [initConfig EXCEPT !.ReInitGit = FALSE]
            /\ asked' = asked
    /\ pc' = "AskRemoveInit"
    /\ UNCHANGED <<variant, cwd, getwdErr, envInfo, answers, procs,
                   steps, errs, fs, removeResult>>

AskRemoveInit ==
    /\ pc = "AskRemoveInit"
    /\ \E answer \in Answers :
          initConfig' = [initConfig EXCEPT !.RemoveInit = YesNoPrompt(answer, TRUE)]
    /\ asked' = Append(asked, "remove init.go")
    /\ pc' = InitProjectOrder[1]
    /\ UNCHANGED <<variant, cwd, getwdErr, envInfo, answers, procs,
                   steps, errs, fs, removeResult>>

(***************************************************************************)
(* initProject, one action per step                                        *)
(***************************************************************************)
Run(cmd, arg, ok) == Append(procs, [cmd |-> cmd, arg |-> arg, ok |-> ok])

GoModInitOutcomes ==
    IF variant = "part_000" THEN {"unresolvable", "exit error", "ok"}
    ELSE {"unresolvable", "not run"}

GoModInitErr(outcome) == outcome \in {"unresolvable", "exit error"}

GoModInitNext_ignoreErr(err) == After("GoModInit")

GoModInitNext(err) ==
    IF err THEN "exit" ELSE After("GoModInit")

GoModInit ==
    /\ pc = "GoModInit"
    /\ steps' = Append(steps, "go mod init")
    /\ \E outcome \in GoModInitOutcomes :
          /\ procs' = IF outcome \in {"exit error", "ok"}
                      THEN Run("go mod init", initConfig.GoModName, outcome = "ok")
                      ELSE procs
          /\ fs' = IF outcome = "ok"
                   THEN [fs EXCEPT !.files = @ \cup {GoModFile}]
                   ELSE fs
          /\ errs' = IF GoModInitErr(outcome)
                     THEN Append(errs, "Error initializing go module")
                     ELSE errs
          /\ pc' = GoModInitNext(GoModInitErr(outcome))
    /\ UNCHANGED <<variant, cwd, getwdErr, envInfo, initConfig, asked,
                   answers, removeResult>>

DirOf(path) == SubSeq(path, 1, LastSlash(path, Len(path)))

RenameRequested(cfg) == cfg.DirectoryName # TemplateDirName

RenameDirectory ==
    /\ pc = "RenameDirectory"
    /\ IF RenameRequested(initConfig)
       THEN /\ steps' = Append(steps, "rename directory")
            /\ \E ok \in BOOLEAN :
                  IF ok
                  THEN /\ cwd' = DirOf(cwd) \o initConfig.DirectoryName
                       /\ errs' = errs
                  ELSE /\ cwd' = cwd
                       /\ errs' = Append(errs, "Error renaming current directory")
       ELSE UNCHANGED <<steps, cwd, errs>>
    /\ pc' = After("RenameDirectory")
    /\ UNCHANGED <<variant, getwdErr, envInfo, initConfig, asked,
                   answers, procs, fs, removeResult>>

ProjectDirs(cfg) == {CmdPath(cfg.GoModName), PkgDir, InternalDir}

MkdirAll ==
    /\ pc = "MkdirAll"
    /\ steps' = Append(steps, "create directories")
    /\ \E created \in SUBSET ProjectDirs(initConfig) :
          fs' = [fs EXCEPT !.dirs = @ \cup created]
    /\ pc' = After("MkdirAll")
    /\ UNCHANGED <<variant, cwd, getwdErr, envInfo, initConfig, asked,
                   answers, procs, errs, removeResult>>

CreateMainNext_continue(err) == After("CreateMain")

CreateMainNext(err) == IF err THEN "exit" ELSE After("CreateMain")

CreateMain ==
    /\ pc = "CreateMain"
    /\ steps' = Append(steps, "create main.go")
    /\ \E ok \in (IF CmdPath(initConfig.GoModName) \in fs.dirs
                  THEN BOOLEAN ELSE {FALSE}) :
          /\ fs' = IF ok
                   THEN [fs EXCEPT !.files = @ \cup {MainPath(initConfig.GoModName)}]
                   ELSE fs
          /\ errs' = IF ok THEN errs ELSE Append(errs, "Error creating main.go")
          /\ pc' = CreateMainNext(~ok)
    /\ UNCHANGED <<variant, cwd, getwdErr, envInfo, initConfig, asked,
                   answers, procs, removeResult>>

TaskRequested_always(cfg) == TRUE

TaskRequested(cfg) == cfg.InitTask

TaskInit ==
    /\ pc = "TaskInit"
    /\ IF TaskRequested(initConfig)
       THEN /\ steps' = Append(steps, "task --init")
            /\ \E ok \in BOOLEAN :
                  /\ procs' = Run("task --init", EmptyStr, ok)
                  /\ fs' = IF ok THEN [fs EXCEPT !.files = @ \cup {Taskfile}]
                           ELSE fs
                  /\ errs' = IF ok THEN errs
                             ELSE Append(errs, "Error initializing taskfile")
       ELSE UNCHANGED <<steps, procs, fs, errs>>
    /\ pc' = After("TaskInit")
    /\ UNCHANGED <<variant, cwd, getwdErr, envInfo, initConfig, asked,
                   answers, removeResult>>

WriteMakefile ==
    /\ pc = "WriteMakefile"
    /\ IF initConfig.InitMake
       THEN /\ steps' = Append(steps, "write Makefile")
            /\ \E ok \in BOOLEAN :
                  fs' = IF ok THEN [fs EXCEPT !.files = @ \cup {MakefilePath}]
                        ELSE fs
       ELSE UNCHANGED <<steps, fs>>
    /\ pc' = After("WriteMakefile")
    /\ UNCHANGED <<variant, cwd, getwdErr, envInfo, initConfig, asked,
                   answers, procs, errs, removeResult>>

GitInit ==
    /\ pc = "GitInit"
    /\ IF initConfig.ReInitGit
       THEN /\ steps' = Append(steps, "git init")
            /\ \E ok \in BOOLEAN :
                  /\ procs' = Run("git init", EmptyStr, ok)
                  /\ fs' = IF ok THEN [fs EXCEPT !.dirs = @ \cup {GitDir}]
                           ELSE fs
                  /\ errs' = IF ok THEN errs
                             ELSE Append(errs, "Error reinitializing git")
            /\ pc' = After("GitInit")
       ELSE /\ UNCHANGED <<steps, procs, fs, errs>>
            /\ pc' = After("GitRemote")
    /\ UNCHANGED <<variant, cwd, getwdErr, envInfo, initConfig, asked,
                   answers, removeResult>>

RemoteCaptured(cfg) ==
    IF variant = "part_000" THEN cfg.GitRepo # EmptyStr
    ELSE cfg.GitProvider # EmptyStr

RemoteCommand ==
    IF variant = "part_000" THEN "git remote set-url origin"
    ELSE "git remote add origin"

RemoteUrl(cfg) == IF variant = "part_000" THEN cfg.GitRepo ELSE cfg.GitPath

GitRemote ==
    /\ pc = "GitRemote"
    /\ IF RemoteCaptured(initConfig)
       THEN /\ steps' = Append(steps, "git remote")
            /\ \E ok \in BOOLEAN :
                  /\ procs' = Run(RemoteCommand, RemoteUrl(initConfig), ok)
                  /\ errs' = IF ok THEN errs
                             ELSE Append(errs, "Error configuring git")
       ELSE UNCHANGED <<steps, procs, errs>>
    /\ pc' = After("GitRemote")
    /\ UNCHANGED <<variant, cwd, getwdErr, envInfo, initConfig, asked,
                   answers, fs, removeResult>>

Remove_keepsFile(files, path, err) == files

Remove(files, path, err) == IF err = "nil" THEN files \ {path} ELSE files

RemoveErrors(files, path) ==
    IF path \in files THEN {"nil", "failed"} ELSE {"not exist"}

RemoveRequested(cfg) == cfg.RemoveInit

RemoveInitGo ==
    /\ pc = "RemoveInitGo"
    /\ IF RemoveRequested(initConfig)
       THEN /\ steps' = Append(steps, "remove init.go")
            /\ \E err \in RemoveErrors(fs.files, InitGoPath) :
                  /\ fs' = [fs EXCEPT !.files = Remove(@, InitGoPath, err)]
                  /\ removeResult' = err
       ELSE UNCHANGED <<steps, fs, removeResult>>
    /\ pc' = After("RemoveInitGo")
    /\ UNCHANGED <<variant, cwd, getwdErr, envInfo, initConfig, asked,
                   answers, procs, errs>>

ClosingGuidance ==
    /\ pc = "ClosingGuidance"
    /\ steps' = Append(steps, "closing guidance")
    /\ pc' = After("ClosingGuidance")
    /\ UNCHANGED <<variant, cwd, getwdErr, envInfo, initConfig, asked,
                   answers, procs, errs, fs, removeResult>>

Next ==
    \/ collectEnvInfo
    \/ checkEssentialCommands
    \/ PromptGetwd
    \/ AskGitRepo
    \/ AskGitUsername
    \/ AskGitProvider
    \/ AskModName
    \/ AskRename
    \/ AskTask
    \/ AskMake
    \/ AskReInitGit
    \/ AskRemoveInit
    \/ GoModInit
    \/ RenameDirectory
    \/ MkdirAll
    \/ CreateMain
    \/ TaskInit
    \/ WriteMakefile
    \/ GitInit
    \/ GitRemote
    \/ RemoveInitGo
    \/ ClosingGuidance

Spec == Init /\ [][Next]_vars

(***************************************************************************)
(* Vocabulary of the properties                                            *)
(***************************************************************************)
InSeq(x, seq) == \E i \in 1..Len(seq) : seq[i] = x

Ran(cmd) == \E i \in 1..Len(procs) : procs[i].cmd = cmd

ModInitFailed == InSeq("Error initializing go module", errs)

CreateFailed == InSeq("Error creating main.go", errs)

InitProjectEntered == InSeq("go mod init", steps)

InitProjectEnded == pc = "exit" /\ InitProjectEntered

ConfigReturned == pc \notin {"main", "checkEssentialCommands", "PromptInitConfig",
                             "AskGitRepo", "AskGitUsername", "AskGitProvider",
                             "AskModName", "AskRename", "AskTask", "AskMake",
                             "AskReInitGit", "AskRemoveInit"}
                  /\ envInfo.GoInstalled

RemoteCommands == {"git remote set-url origin", "git remote add origin"}

Position(x, seq) == CHOOSE i \in 1..Len(seq) : seq[i] = x

FollowsOrder(seq, order) ==
    /\ \A i \in 1..Len(seq) : InSeq(seq[i], order)
    /\ \A i, j \in 1..Len(seq) :
          i < j => Position(seq[i], order) < Position(seq[j], order)

(***************************************************************************)
(* C1: when `go mod init` fails (unresolvable command or error exit) the   *)
(* run ends right after the error is reported: no directory is created,    *)
(* no file is written, no rename is attempted, no other external command   *)
(* is run by initProject and the bootstrap file is not deleted.            *)
(***************************************************************************)
C1_ModInitFailureIsFatal ==
    ModInitFailed =>
       /\ pc = "exit"
       /\ steps = <<"go mod init">>
       /\ errs[Len(errs)] = "Error initializing go module"
       /\ fs.dirs = {}
       /\ fs.files \subseteq {InitGoPath}
       /\ removeResult = "not called"
       /\ \A i \in 1..Len(procs) :
             \/ procs[i].cmd = "git config user.name"
             \/ procs[i].cmd = "go mod init" /\ ~procs[i].ok /\ i = Len(procs)

C1_Witness ==
    /\ ModInitFailed
    /\ Ran("go mod init")
    /\ initConfig.RemoveInit /\ initConfig.InitTask /\ initConfig.ReInitGit
    /\ InitGoPath \in fs.files

(***************************************************************************)
(* C2: a run that reaches directory creation has first executed the        *)
(* process `go mod init <module name>`, which ran to completion and        *)
(* succeeded.                                                              *)
(***************************************************************************)
C2_ModInitRanBeforeLaterSteps ==
    (\E i \in 1..Len(steps) : steps[i] # "go mod init") =>
       \E k \in 1..Len(procs) :
          /\ procs[k].cmd = "go mod init"
          /\ procs[k].arg = initConfig.GoModName
          /\ procs[k].ok

(***************************************************************************)
(* C3 as claimed: module init is the only fatal step, so a run in which    *)
(* it did not fail ends with the closing guidance.                         *)
(***************************************************************************)
C3_OnlyModInitFatal ==
    (InitProjectEnded /\ ~ModInitFailed) => InSeq("closing guidance", steps)

(***************************************************************************)
(* C3 amended: module init and the creation of main.go are the two fatal   *)
(* steps.  In a run in which module init did not fail, a failure to create *)
(* main.go is logged and ends the run at once; every other failure leaves  *)
(* the run going: each later step whose switch is set is attempted, the    *)
(* failure of a process or of the rename is logged, and the run ends with  *)
(* the closing guidance.                                                   *)
(***************************************************************************)
C3_FatalStepsAreModInitAndCreate ==
    (InitProjectEnded /\ ~ModInitFailed) =>
       /\ InSeq("create directories", steps)
       /\ InSeq("create main.go", steps)
       /\ CreateFailed =>
             /\ steps[Len(steps)] = "create main.go"
             /\ errs[Len(errs)] = "Error creating main.go"
       /\ ~CreateFailed =>
             /\ steps[Len(steps)] = "closing guidance"
             /\ initConfig.InitTask => InSeq("task --init", steps)
             /\ initConfig.InitMake => InSeq("write Makefile", steps)
             /\ initConfig.ReInitGit => InSeq("git init", steps)
             /\ (initConfig.ReInitGit /\ RemoteCaptured(initConfig))
                   => InSeq("git remote", steps)
             /\ initConfig.RemoveInit => InSeq("remove init.go", steps)
       /\ \A i \in 1..Len(procs) :
             ~procs[i].ok =>
                InSeq(CASE procs[i].cmd = "task --init" -> "Error initializing taskfile"
                        [] procs[i].cmd = "git init" -> "Error reinitializing git"
                        [] procs[i].cmd \in RemoteCommands -> "Error configuring git"
                        [] OTHER -> "Error initializing go module", errs)

C3_Witness ==
    /\ InitProjectEnded
    /\ steps[Len(steps)] = "closing guidance"
    /\ InSeq("Error renaming current directory", errs)
    /\ InSeq("Error initializing taskfile", errs)
    /\ InSeq("Error reinitializing git", errs)
    /\ PkgDir \notin fs.dirs
    /\ initConfig.InitMake /\ MakefilePath \notin fs.files
    /\ removeResult = "failed"

(***************************************************************************)
(* C4 as claimed: the working directory rename is never attempted before   *)
(* the directory tree and the entry-point stub have been created.          *)
(***************************************************************************)
C4_RenameAfterStub ==
    \A i \in 1..Len(steps) :
       steps[i] = "rename directory" =>
          \E j, k \in 1..(i - 1) :
             steps[j] = "create directories" /\ steps[k] = "create main.go"

CodeOrder ==
    <<"go mod init", "rename directory", "create directories", "create main.go",
      "task --init", "write Makefile", "git init", "git remote",
      "remove init.go", "closing guidance">>

(***************************************************************************)
(* C4 amended: the steps occur in the fixed order module init, then (if    *)
(* requested) working directory rename, then directory tree, then          *)
(* entry-point stub, then task-file init, makefile write, version-control  *)
(* init followed by remote registration, bootstrap removal and closing     *)
(* guidance; each step occurs at most once and the rename is attempted     *)
(* before the directory tree is created.                                   *)
(***************************************************************************)
C4_StepsInCodeOrder ==
    /\ FollowsOrder(steps, CodeOrder)
    /\ steps # <<>> => steps[1] = "go mod init"
    /\ InSeq("git remote", steps) => InSeq("git init", steps)

C4_Witness ==
    /\ InitProjectEnded
    /\ Len(steps) = 9
    /\ InSeq("rename directory", steps)

(***************************************************************************)
(* C5: in a run that got past module init, the working directory rename   *)
(* is attempted if and only if no remote was given and the user answered   *)
(* "y" to the rename question, and its target is the module name.          *)
(***************************************************************************)
C5_RenameIffAccepted ==
    InSeq("create directories", steps) =>
       /\ InSeq("rename directory", steps)
             <=> (initConfig.GitRepo = EmptyStr /\ answers.rename = <<"y">>)
       /\ answers.rename = <<"y">> => initConfig.DirectoryName = initConfig.GoModName

(***************************************************************************)
(* C6: the InitConfig returned by PromptInitConfig has a non-empty module  *)
(* name, whatever the flags and the answers (stated here for the runs in   *)
(* which the working directory could be read).                             *)
(***************************************************************************)
C6_ModuleNameNonEmpty ==
    (ConfigReturned /\ ~getwdErr) => initConfig.GoModName # EmptyStr

(***************************************************************************)
(* C7: with remote information given and the module-name prompt answered   *)
(* with an empty line, the module name does not start with https:// or     *)
(* http://, and for https://github.com/user/repo it is                     *)
(* github.com/user/repo.                                                   *)
(***************************************************************************)
C7_SchemeStripped ==
    (ConfigReturned /\ RemoteCaptured(initConfig) /\ answers.modName = EmptyStr) =>
       /\ ~HasPrefix(initConfig.GoModName, HttpsScheme)
       /\ ~HasPrefix(initConfig.GoModName, HttpScheme)
       /\ initConfig.GitRepo = RepoUrl =>
             initConfig.GoModName = SubSeq(RepoUrl, 9, Len(RepoUrl))

QuestionOrder ==
    <<"git repository", "git username", "git provider", "module name",
      "rename directory", "taskfile", "makefile", "reinitialize git",
      "remove init.go">>

(***************************************************************************)
(* C8: a tool-dependent question is asked if and only if its flag is true  *)
(* (remote questions and reinitialize-git: version control; task file:     *)
(* task runner; makefile: make), the module-name and remove-bootstrap      *)
(* questions are always asked, and the questions come in the fixed order.  *)
(***************************************************************************)
C8_QuestionsFollowFlags ==
    /\ FollowsOrder(asked, QuestionOrder)
    /\ ConfigReturned =>
          /\ (InSeq("git repository", asked) \/ InSeq("git provider", asked))
                <=> envInfo.GitInstalled
          /\ InSeq("git username", asked)
                <=> (envInfo.GitInstalled /\ variant = "init.go")
          /\ InSeq("reinitialize git", asked) <=> envInfo.GitInstalled
          /\ InSeq("taskfile", asked) <=> envInfo.TaskInstalled
          /\ InSeq("makefile", asked) <=> envInfo.MakeInstalled
          /\ InSeq("module name", asked)
          /\ InSeq("remove init.go", asked)

C8_Witness ==
    /\ ConfigReturned
    /\ envInfo.GitInstalled /\ envInfo.MakeInstalled /\ ~envInfo.TaskInstalled
    /\ asked = <<"git repository", "module name", "makefile",
                 "reinitialize git", "remove init.go">>

(***************************************************************************)
(* C9 as claimed: every run of initProject with the remove-bootstrap       *)
(* switch set ends with ./init.go absent.                                  *)
(***************************************************************************)
C9_RemovedInEveryRun ==
    (InitProjectEnded /\ initConfig.RemoveInit) => InitGoPath \notin fs.files

(***************************************************************************)
(* C9 amended: a run with the remove-bootstrap switch set calls the        *)
(* removal unless it ended early (module init or main.go creation          *)
(* failed); when the removal succeeds ./init.go is absent from then on;    *)
(* when the file is already absent, or the removal fails, nothing is       *)
(* logged and the run goes on to the closing guidance.                     *)
(***************************************************************************)
C9_RemovedWhenStepReached ==
    /\ removeResult = "nil" => InitGoPath \notin fs.files
    /\ removeResult = "not exist" => InitGoPath \notin fs.files
    /\ removeResult = "failed" => InitGoPath \in fs.files
    /\ removeResult # "not called" => InSeq("remove init.go", steps)
    /\ InitProjectEnded =>
          /\ (initConfig.RemoveInit /\ removeResult = "not called")
                => (ModInitFailed \/ CreateFailed)
          /\ removeResult # "not called" =>
                /\ initConfig.RemoveInit
                /\ steps[Len(steps)] = "closing guidance"
                /\ Len(steps) >= 2 /\ steps[Len(steps) - 1] = "remove init.go"

C9_Witness ==
    /\ InitProjectEnded
    /\ removeResult = "nil"
    /\ InitGoPath \notin fs.files
    /\ steps[Len(steps)] = "closing guidance"

(***************************************************************************)
(* C10: an optional tool is used only if collectEnvInfo found it: `task    *)
(* --init` only with the task flag, the Makefile only with the make flag,  *)
(* git commands only with the git flag, the remote registration only with  *)
(* the reinitialize switch set and a remote captured and after `git        *)
(* init`; without the go flag nothing is asked and initProject is not      *)
(* entered.                                                                *)
(***************************************************************************)
C10_ToolsUsedOnlyIfFound ==
    /\ Ran("task --init") => envInfo.TaskInstalled
    /\ (InSeq("write Makefile", steps) \/ MakefilePath \in fs.files)
          => envInfo.MakeInstalled
    /\ \A i \in 1..Len(procs) :
          /\ procs[i].cmd \in ({"git init", "git config user.name"} \cup RemoteCommands)
                => envInfo.GitInstalled
          /\ procs[i].cmd \in RemoteCommands =>
                /\ procs[i].cmd = RemoteCommand
                /\ initConfig.ReInitGit
                /\ RemoteCaptured(initConfig)
                /\ \E j \in 1..(i - 1) : procs[j].cmd = "git init"
    /\ ~envInfo.GoInstalled =>
          asked = <<>> /\ steps = <<>> /\ procs = <<>> /\ fs.dirs = {}

C10_Witness ==
    /\ InitProjectEnded
    /\ Ran("task --init")
    /\ Ran("git init")
    /\ Ran(RemoteCommand)
    /\ MakefilePath \in fs.files

====
